---- MODULE Spec2Model ----
(***************************************************************************)
(* A model of app.py, the tourism sentiment dashboard: one Streamlit       *)
(* script that loads a geocoded review table, normalises it, reads two     *)
(* sidebar multiselects, derives the aggregate tables from the table, and  *)
(* draws three word clouds and a map.  The script runs top to bottom on    *)
(* every widget change; an uncaught exception ends the run where it is     *)
(* raised.  A session is a first run with everything selected, followed by *)
(* a run for every change the user makes to a selection.                   *)
(*                                                                         *)
(* Values.  A text cell is a string; a missing text cell is NaN.  A review *)
(* text is a sequence of one-character strings, so that joining and        *)
(* tokenising are computed; a missing review cell is the empty sequence.   *)
(* A numeric cell (Latitude, Longitude, SentimentScore, a mean) is <<x>>,  *)
(* or <<>> when it is missing (NaNf).  A mean is kept exact, as the record *)
(* [sum, n] of the scores added and their number.                          *)
(***************************************************************************)
EXTENDS Integers, Sequences, FiniteSets, TLC

VARIABLES
    csv,                     \* rows of Geo_Reviews_With_Coordinates.csv
    widget,                  \* the two multiselects' stored selections
    pc,                      \* the section of the script that runs next
    status,                  \* "running", "done" or "error" (exception raised at pc)
    df,                      \* the main table: [columns, rows]
    selected_sentiment,
    selected_area,
    filtered_df,
    metrics,                 \* col1, col2, col3
    area_counts,
    sentiment_counts,
    top_rural_counts,
    top_sentiment_districts,
    clouds,                  \* the corpora handed to WordCloud.generate, tab by tab
    map_df,
    outcome,                 \* "none", "map" or "warning"
    first                    \* what the session's first run showed, once it has ended

vars == <<csv, widget, pc, status, df, selected_sentiment, selected_area,
          filtered_df, metrics, area_counts, sentiment_counts, top_rural_counts,
          top_sentiment_districts, clouds, map_df, outcome, first>>

---------------------------------------------------------------------------
\* Bounds of the model.

\* The longest free part of an input table.
MaxRows == 3

---------------------------------------------------------------------------
\* Missing values.

NaN == "NaN"
NaNf == <<>>

\* isna() on a text cell and on a numeric cell.
isna(x) == x = NaN
isnaf(x) == x = NaNf

\* head(10) of the two ranked tables.
TopN == 10

---------------------------------------------------------------------------
\* Strings.

\* str.strip() on the header names the input file uses.
strip(s) ==
    CASE s = " Sentiment" -> "Sentiment"
      [] s = "Area Type " -> "Area Type"
      [] OTHER -> s

\* str.title() on the vocabulary of the input tables; NaN stays NaN.  A
\* string that is already in title form is its own image.
title(s) ==
    CASE s = NaN -> NaN
      [] s = "positive" -> "Positive"
      [] s = "NEGATIVE" -> "Negative"
      [] s = "mixed" -> "Mixed"
      [] s = "rural" -> "Rural"
      [] s = "kandy" -> "Kandy"
      [] s = "colombo" -> "Colombo"
      [] s = "galle" -> "Galle"
      [] s = "galle fort" -> "Galle Fort"
      [] OTHER -> s

\* astype(str) on a review cell: a missing cell becomes the text "nan".
astype_str(cell) ==
    IF cell = <<>> THEN <<"n", "a", "n">> ELSE cell

\* Alphabetical order of the district names, as Python compares strings.
DistrictOrder ==
    <<"Ampara", "Badulla", "Colombo", "Galle", "Gampaha", "Jaffna", "Kalutara",
      "Kandy", "Kegalle", "Mannar", "Matale", "Matara", "Puttalam">>

---------------------------------------------------------------------------
\* Input tables.

CsvHeader ==
    {"Review", " Sentiment", "Area Type ", "District", "Destination",
     "Latitude", "Longitude"}

CsvRow(review, sentiment, area, district, destination, lat, lon) ==
    [h \in CsvHeader |->
        CASE h = "Review" -> review
          [] h = " Sentiment" -> sentiment
          [] h = "Area Type " -> area
          [] h = "District" -> district
          [] h = "Destination" -> destination
          [] h = "Latitude" -> lat
          [] h = "Longitude" -> lon]

ok == <<"o", "k">>
bad == <<"b", "a", "d">>

\* The rows the short tables are made of.
RowPool ==
    { CsvRow(ok, "positive", "rural", "kandy", "kandy", <<7>>, <<80>>),
      CsvRow(bad, "NEGATIVE", "rural", "kandy", "kandy", <<6>>, <<79>>),
      CsvRow(<<>>, "Neutral", "rural", NaN, NaN, NaNf, <<80>>),
      CsvRow(ok, "mixed", NaN, "kandy", "galle fort", NaNf, NaNf),
      CsvRow(bad, NaN, "Urban", "colombo", NaN, <<6>>, NaNf) }

PositiveRural(district, destination) ==
    CsvRow(ok, "positive", "rural", district, destination, <<7>>, <<80>>)

\* A table of ten rural destinations in ten districts, each with one positive
\* review, and a neutral, a negative and a positive urban review.
WidePrefix ==
    << PositiveRural("Ampara", "Arugam Bay"),
       PositiveRural("Badulla", "Ella"),
       PositiveRural("Gampaha", "Negombo"),
       PositiveRural("Jaffna", "Nallur"),
       PositiveRural("Kalutara", "Bentota"),
       PositiveRural("Kegalle", "Pinnawala"),
       PositiveRural("Mannar", "Talaimannar"),
       PositiveRural("Matale", "Sigiriya"),
       PositiveRural("Matara", "Mirissa"),
       PositiveRural("Puttalam", "Kalpitiya"),
       CsvRow(ok, "Neutral", "Urban", "Ampara", "Ampara", NaNf, NaNf),
       CsvRow(bad, "NEGATIVE", "Urban", "Badulla", "Badulla", <<6>>, <<81>>),
       CsvRow(ok, "positive", "Urban", "Ampara", "Arugam Bay", <<6>>, <<81>>) >>

\* The rows that may follow the wide table.
TailPool ==
    { CsvRow(ok, "positive", "rural", "kandy", "kandy", <<7>>, <<80>>),
      CsvRow(ok, "positive", "rural", "galle", NaN, NaNf, NaNf) }

Seqs(pool) == UNION { [1..n -> pool] : n \in 0..MaxRows }

\* The input files: up to MaxRows rows, alone or after the wide table.
Tables == Seqs(RowPool) \cup { WidePrefix \o t : t \in Seqs(TailPool) }

---------------------------------------------------------------------------
\* Table operations (pandas).

Range(s) == { s[i] : i \in 1..Len(s) }

\* df[col] as a sequence of cells.
Column(rows, col) == [i \in 1..Len(rows) |-> rows[i][col]]

\* Boolean indexing: the rows at the positions where keep holds, in order.
RECURSIVE Take(_, _, _)
Take(rows, keep, i) ==
    IF i > Len(rows) THEN <<>>
    ELSE (IF keep[i] THEN <<rows[i]>> ELSE <<>>) \o Take(rows, keep, i + 1)

Mask(rows, keep) == Take(rows, keep, 1)

\* Series.unique(): the distinct values in order of first appearance, a
\* missing value included.
RECURSIVE unique(_)
unique(s) ==
    IF s = <<>> THEN <<>>
    ELSE LET init == unique(SubSeq(s, 1, Len(s) - 1))
             x == s[Len(s)]
         IN  IF x \in Range(init) THEN init ELSE Append(init, x)

\* Series.isin(values): a missing cell matches a missing value.
isin(s, values) == [i \in 1..Len(s) |-> s[i] \in values]

\* head(n).
head(s, n) == SubSeq(s, 1, IF Len(s) < n THEN Len(s) ELSE n)

\* The place of the i-th of n elements after a stable sort: before[j, i]
\* says that the j-th sorts strictly before the i-th; elements neither of
\* which precedes the other keep their order.  (sort_values and value_counts
\* sort with numpy's quicksort, which is an insertion sort, and so stable, on
\* the at most 16 entries the tables have here.)
Place(n, before, i) ==
    1 + Cardinality({ j \in 1..n : before[j, i] })
      + Cardinality({ j \in 1..(i - 1) : ~before[j, i] /\ ~before[i, j] })

StableSort(s, before) ==
    [p \in 1..Len(s) |-> s[CHOOSE i \in 1..Len(s) : Place(Len(s), before, i) = p]]

notna(x) == ~isna(x)

RECURSIVE CountOf(_, _)
CountOf(s, x) ==
    IF s = <<>> THEN 0
    ELSE (IF Head(s) = x THEN 1 ELSE 0) + CountOf(Tail(s), x)

\* The order of sort_values(ascending=False) on counts.
MoreFrequent(t) ==
    [j \in 1..Len(t), i \in 1..Len(t) |-> t[j].count > t[i].count]

\* value_counts with dropna=False: a missing value is a group of its own.
value_counts_keepna(s) ==
    LET keys == unique(s)
        counted == [k \in 1..Len(keys) |->
                       [key |-> keys[k], count |-> CountOf(s, keys[k])]]
    IN  StableSort(counted, MoreFrequent(counted))

\* Series.value_counts(): missing values dropped, one entry per distinct
\* value in order of first appearance, then sorted by descending count.
value_counts(s) ==
    LET keys == unique(SelectSeq(s, notna))
        counted == [k \in 1..Len(keys) |->
                       [key |-> keys[k], count |-> CountOf(s, keys[k])]]
    IN  StableSort(counted, MoreFrequent(counted))

RECURSIVE Sum(_)
Sum(s) == IF s = <<>> THEN 0 ELSE Head(s)[1] + Sum(Tail(s))

\* Series.mean(): missing values are skipped; the mean of none is missing.
mean(s) ==
    LET present == SelectSeq(s, LAMBDA x : ~isnaf(x))
    IN  IF present = <<>> THEN NaNf
        ELSE <<[sum |-> Sum(present), n |-> Len(present)]>>

\* groupby_mean over the rows whose col is present only: a group with no
\* such row is no group.
groupby_mean_dropna(rows, by, col, order) ==
    LET keys == SelectSeq(order, LAMBDA k :
                    \E i \in 1..Len(rows) : rows[i][by] = k /\ ~isnaf(rows[i][col]))
    IN  [g \in 1..Len(keys) |->
            LET members == Mask(rows, [i \in 1..Len(rows) |-> rows[i][by] = keys[g]])
            IN  (by :> keys[g]) @@ (col :> mean(Column(members, col)))]

\* groupby(by)[col].mean().reset_index(): one row per distinct value of the
\* key column that is not missing, in sorted key order.
groupby_mean(rows, by, col, order) ==
    LET keys == SelectSeq(order, LAMBDA k : k \in Range(Column(rows, by)))
    IN  [g \in 1..Len(keys) |->
            LET members == Mask(rows, [i \in 1..Len(rows) |-> rows[i][by] = keys[g]])
            IN  (by :> keys[g]) @@ (col :> mean(Column(members, col)))]

\* left.merge(right, on=key): the inner join, in the order of the left rows.
RECURSIVE merge(_, _, _)
merge(left, right, on) ==
    IF left = <<>> THEN <<>>
    ELSE LET l == Head(left)
             matches == SelectSeq(right, LAMBDA r : r[on] = l[on])
         IN  [m \in 1..Len(matches) |-> l @@ matches[m]] \o merge(Tail(left), right, on)

\* Whether score a is greater than score b, a missing score being the least.
Greater(a, b) ==
    /\ ~isnaf(a)
    /\ isnaf(b) \/ a[1].sum * b[1].n > b[1].sum * a[1].n

\* The order of sort_values(by='SentimentScore', ascending=False): greater
\* means first, missing means last.
HigherScore(t) ==
    [j \in 1..Len(t), i \in 1..Len(t) |->
        Greater(t[j]["SentimentScore"], t[i]["SentimentScore"])]

\* " ".join(texts).
RECURSIVE join(_)
join(texts) ==
    IF texts = <<>> THEN <<>>
    ELSE IF Len(texts) = 1 THEN texts[1]
    ELSE texts[1] \o <<" ">> \o join(Tail(texts))

\* The words WordCloud's tokeniser finds in a text: runs of two or more
\* word characters (none of the texts here holds a stop word or a word of
\* one letter).
RECURSIVE split(_, _)
split(text, word) ==
    IF text = <<>> THEN (IF word = <<>> THEN <<>> ELSE <<word>>)
    ELSE IF Head(text) = " "
         THEN (IF word = <<>> THEN <<>> ELSE <<word>>) \o split(Tail(text), <<>>)
         ELSE split(Tail(text), Append(word, Head(text)))

process_text(text) == SelectSeq(split(text, <<>>), LAMBDA w : Len(w) >= 2)

\* WordCloud.generate(text) raises ValueError ("We need at least 1 word to
\* plot a word cloud, got 0") when the text holds no word.
generate_raises(text) == process_text(text) = <<>>

---------------------------------------------------------------------------
\* The script, section by section.

Columns == { strip(h) : h \in CsvHeader }

RawName(c) == CHOOSE h \in CsvHeader : strip(h) = c

TitleColumns == {"Sentiment", "Area Type", "District", "Destination"}

\* Lines 8-16: read_csv, strip the header, coerce and title-case the columns.
Normalize(row) ==
    [c \in Columns |->
        CASE c = "Review" -> astype_str(row[RawName(c)])
          [] c \in TitleColumns -> title(row[RawName(c)])
          [] OTHER -> row[RawName(c)]]

LoadedTable(file) ==
    [columns |-> Columns, rows |-> [i \in 1..Len(file) |-> Normalize(file[i])]]

\* Line 22 and 23: options and default are the column's unique values; the
\* selection is the stored one once the user has touched the widgets.
Options(t, c) == Range(unique(Column(t.rows, c)))

Selected(t, c, w) == IF w = <<>> THEN Options(t, c) ELSE w[1][c]

\* Filter with the two conditions joined by "or".
FilterEither(rows, S, A) ==
    Mask(rows, [i \in 1..Len(rows) |->
                  \/ isin(Column(rows, "Sentiment"), S)[i]
                  \/ isin(Column(rows, "Area Type"), A)[i]])

\* Line 25.
Filter(rows, S, A) ==
    Mask(rows, [i \in 1..Len(rows) |->
                  /\ isin(Column(rows, "Sentiment"), S)[i]
                  /\ isin(Column(rows, "Area Type"), A)[i]])

\* df[df[col] == value].
Where(rows, col, value) ==
    Mask(rows, [i \in 1..Len(rows) |-> rows[i][col] = value])

\* Lines 32-34.
Metrics(rows) ==
    << Len(rows),
       Len(Where(rows, "Area Type", "Rural")),
       Len(Where(rows, "Area Type", "Urban")) >>

\* value_counts().reset_index() with the two columns renamed.
CountTable(counts, key, measure) ==
    [i \in 1..Len(counts) |-> (key :> counts[i].key) @@ (measure :> counts[i].count)]

\* Lines 40-41 and 48-49.
CategoryCounts(rows, col, measure) ==
    CountTable(value_counts(Column(rows, col)), col, measure)

\* TopRural without the condition on the area type.
TopRuralAnyArea(rows) ==
    LET top_rural == Where(rows, "Sentiment", "Positive")
    IN  CountTable(head(value_counts(Column(top_rural, "Destination")), TopN),
                   "Destination", "Positive Review Count")

\* Lines 57-59.
TopRural(rows) ==
    LET top_rural == Where(Where(rows, "Area Type", "Rural"), "Sentiment", "Positive")
    IN  CountTable(head(value_counts(Column(top_rural, "Destination")), TopN),
                   "Destination", "Positive Review Count")

\* sentiment_map with a default of 0 for a sentiment it does not hold.
sentiment_map_zero(s) ==
    CASE s = "Negative" -> <<0>>
      [] s = "Neutral" -> <<1>>
      [] s = "Positive" -> <<2>>
      [] OTHER -> <<0>>

\* Line 67.
sentiment_map(s) ==
    CASE s = "Negative" -> <<0>>
      [] s = "Neutral" -> <<1>>
      [] s = "Positive" -> <<2>>
      [] OTHER -> NaNf

\* WithScore that also drops the rows whose sentiment has no score.
WithScoreDroppingUnscored(t) ==
    LET scored == Mask(t.rows, [i \in 1..Len(t.rows) |->
                                  ~isnaf(sentiment_map(t.rows[i]["Sentiment"]))])
    IN  [columns |-> t.columns \cup {"SentimentScore"},
         rows |-> [i \in 1..Len(scored) |->
                     scored[i] @@ ("SentimentScore" :> sentiment_map(scored[i]["Sentiment"]))]]

\* Line 68: the main table gets a SentimentScore column.
WithScore(t) ==
    [columns |-> t.columns \cup {"SentimentScore"},
     rows |-> [i \in 1..Len(t.rows) |->
                 t.rows[i] @@ ("SentimentScore" :> sentiment_map(t.rows[i]["Sentiment"]))]]

LowerScore(t) ==
    [j \in 1..Len(t), i \in 1..Len(t) |->
        Greater(t[i]["SentimentScore"], t[j]["SentimentScore"])]

\* TopDistricts sorting in ascending order.
TopDistrictsAscending(rows) ==
    LET avg_sentiment == groupby_mean(rows, "District", "SentimentScore", DistrictOrder)
        review_counts == CategoryCounts(rows, "District", "Review Count")
        merged == merge(avg_sentiment, review_counts, "District")
    IN  head(StableSort(merged, LowerScore(merged)), TopN)

\* Lines 69-73, on the table with its score column.
TopDistricts(rows) ==
    LET avg_sentiment == groupby_mean(rows, "District", "SentimentScore", DistrictOrder)
        review_counts == CategoryCounts(rows, "District", "Review Count")
        merged == merge(avg_sentiment, review_counts, "District")
    IN  head(StableSort(merged, HigherScore(merged)), TopN)

\* Line 83.
Corpus(rows, sentiment) == join(Column(Where(rows, "Sentiment", sentiment), "Review"))

Tabs == <<"Positive", "Neutral", "Negative">>

\* Line 100.
dropna(rows) ==
    Mask(rows, [i \in 1..Len(rows) |->
                  ~isnaf(rows[i]["Latitude"]) /\ ~isnaf(rows[i]["Longitude"])])

NoTable == [columns |-> {}, rows |-> <<>>]

Init ==
    /\ csv \in Tables
    /\ widget = <<>>
    /\ pc = "load"
    /\ status = "running"
    /\ df = NoTable
    /\ selected_sentiment = {}
    /\ selected_area = {}
    /\ filtered_df = <<>>
    /\ metrics = <<>>
    /\ area_counts = <<>>
    /\ sentiment_counts = <<>>
    /\ top_rural_counts = <<>>
    /\ top_sentiment_districts = <<>>
    /\ clouds = <<>>
    /\ map_df = <<>>
    /\ outcome = "none"
    /\ first = <<>>

At(p) == pc = p /\ status = "running"

Load ==
    /\ At("load")
    /\ df' = LoadedTable(csv)
    /\ pc' = "sidebar"
    /\ UNCHANGED <<csv, widget, status, selected_sentiment, selected_area, filtered_df,
                   metrics, area_counts, sentiment_counts, top_rural_counts,
                   top_sentiment_districts, clouds, map_df, outcome, first>>

Sidebar ==
    /\ At("sidebar")
    /\ selected_sentiment' = Selected(df, "Sentiment", widget)
    /\ selected_area' = Selected(df, "Area Type", widget)
    /\ filtered_df' = Filter(df.rows, selected_sentiment', selected_area')
    /\ pc' = "summary"
    /\ UNCHANGED <<csv, widget, status, df, metrics, area_counts, sentiment_counts,
                   top_rural_counts, top_sentiment_districts, clouds, map_df, outcome,
                   first>>

Summary ==
    /\ At("summary")
    /\ metrics' = Metrics(df.rows)
    /\ pc' = "area_counts"
    /\ UNCHANGED <<csv, widget, status, df, selected_sentiment, selected_area,
                   filtered_df, area_counts, sentiment_counts, top_rural_counts,
                   top_sentiment_districts, clouds, map_df, outcome, first>>

\* AreaCounts counting the filtered view.
AreaCountsOfFilteredView ==
    /\ At("area_counts")
    /\ area_counts' = CategoryCounts(filtered_df, "Area Type", "Review Count")
    /\ pc' = "sentiment_counts"
    /\ UNCHANGED <<csv, widget, status, df, selected_sentiment, selected_area,
                   filtered_df, metrics, sentiment_counts, top_rural_counts,
                   top_sentiment_districts, clouds, map_df, outcome, first>>

AreaCounts ==
    /\ At("area_counts")
    /\ area_counts' = CategoryCounts(df.rows, "Area Type", "Review Count")
    /\ pc' = "sentiment_counts"
    /\ UNCHANGED <<csv, widget, status, df, selected_sentiment, selected_area,
                   filtered_df, metrics, sentiment_counts, top_rural_counts,
                   top_sentiment_districts, clouds, map_df, outcome, first>>

SentimentCounts ==
    /\ At("sentiment_counts")
    /\ sentiment_counts' = CategoryCounts(df.rows, "Sentiment", "Count")
    /\ pc' = "top_rural"
    /\ UNCHANGED <<csv, widget, status, df, selected_sentiment, selected_area,
                   filtered_df, metrics, area_counts, top_rural_counts,
                   top_sentiment_districts, clouds, map_df, outcome, first>>

TopRuralDestinations ==
    /\ At("top_rural")
    /\ top_rural_counts' = TopRural(df.rows)
    /\ pc' = "districts"
    /\ UNCHANGED <<csv, widget, status, df, selected_sentiment, selected_area,
                   filtered_df, metrics, area_counts, sentiment_counts,
                   top_sentiment_districts, clouds, map_df, outcome, first>>

DistrictAverage ==
    /\ At("districts")
    /\ df' = WithScore(df)
    /\ top_sentiment_districts' = TopDistricts(df'.rows)
    /\ pc' = "wordcloud"
    /\ UNCHANGED <<csv, widget, status, selected_sentiment, selected_area,
                   filtered_df, metrics, area_counts, sentiment_counts,
                   top_rural_counts, clouds, map_df, outcome, first>>

\* Lines 88-95, one tab: the corpus is built, and generate draws it or raises.
WordCloudTab ==
    /\ At("wordcloud")
    /\ LET text == Corpus(df.rows, Tabs[Len(clouds) + 1])
       IN  /\ clouds' = Append(clouds, text)
           /\ IF generate_raises(text)
              THEN status' = "error" /\ pc' = pc
              ELSE /\ status' = status
                   /\ pc' = IF Len(clouds') = Len(Tabs) THEN "map" ELSE "wordcloud"
    /\ UNCHANGED <<csv, widget, df, selected_sentiment, selected_area, filtered_df,
                   metrics, area_counts, sentiment_counts, top_rural_counts,
                   top_sentiment_districts, map_df, outcome, first>>

\* Lines 100-117.
Map ==
    /\ At("map")
    /\ map_df' = dropna(filtered_df)
    /\ outcome' = IF map_df' # <<>> THEN "map" ELSE "warning"
    /\ pc' = "import"
    /\ UNCHANGED <<csv, widget, status, df, selected_sentiment, selected_area,
                   filtered_df, metrics, area_counts, sentiment_counts,
                   top_rural_counts, top_sentiment_districts, clouds, first>>

\* Line 121: test_plotly is no module of the repository; the import succeeds
\* where the environment provides one and raises ModuleNotFoundError where not.
ImportTestPlotly ==
    /\ At("import")
    /\ \/ status' = "done"
       \/ status' = "error"
    /\ UNCHANGED <<csv, widget, pc, df, selected_sentiment, selected_area,
                   filtered_df, metrics, area_counts, sentiment_counts,
                   top_rural_counts, top_sentiment_districts, clouds, map_df, outcome,
                   first>>

\* What a run has shown.
Shown ==
    [pc |-> pc, status |-> status, metrics |-> metrics, area_counts |-> area_counts,
     sentiment_counts |-> sentiment_counts, top_rural_counts |-> top_rural_counts,
     top_sentiment_districts |-> top_sentiment_districts, clouds |-> clouds,
     map_df |-> map_df, outcome |-> outcome]

\* The stored selection of a multiselect with one option picked or unpicked.
Toggle(selection, option) ==
    IF option \in selection THEN selection \ {option} ELSE selection \cup {option}

\* Once the run has ended the user picks or unpicks one option of one of the
\* multiselects: Streamlit stores the selection and runs the script again
\* from its top.
Rerun ==
    /\ status \in {"done", "error"}
    /\ \E col \in {"Sentiment", "Area Type"} :
         \E option \in Options(df, col) :
            LET S == IF col = "Sentiment" THEN Toggle(selected_sentiment, option)
                     ELSE selected_sentiment
                A == IF col = "Area Type" THEN Toggle(selected_area, option)
                     ELSE selected_area
            IN  widget' = <<("Sentiment" :> S) @@ ("Area Type" :> A)>>
    /\ first' = IF first = <<>> THEN <<Shown>> ELSE first
    /\ pc' = "load"
    /\ status' = "running"
    /\ df' = NoTable
    /\ selected_sentiment' = {}
    /\ selected_area' = {}
    /\ filtered_df' = <<>>
    /\ metrics' = <<>>
    /\ area_counts' = <<>>
    /\ sentiment_counts' = <<>>
    /\ top_rural_counts' = <<>>
    /\ top_sentiment_districts' = <<>>
    /\ clouds' = <<>>
    /\ map_df' = <<>>
    /\ outcome' = "none"
    /\ csv' = csv

Next ==
    \/ Load
    \/ Sidebar
    \/ Summary
    \/ AreaCounts
    \/ SentimentCounts
    \/ TopRuralDestinations
    \/ DistrictAverage
    \/ WordCloudTab
    \/ Map
    \/ ImportTestPlotly
    \/ Rerun

Spec == Init /\ [][Next]_vars

---------------------------------------------------------------------------
\* Properties.

StepOrder ==
    <<"load", "sidebar", "summary", "area_counts", "sentiment_counts", "top_rural",
      "districts", "wordcloud", "map", "import">>

StepNo(p) == CHOOSE k \in 1..Len(StepOrder) : StepOrder[k] = p

\* The section p of the script has run to its end in this run.
Ran(p) == StepNo(pc) > StepNo(p)

Ended == status \in {"done", "error"}

\* A row of the main table without the column line 68 adds.
Loaded(r) == [c \in Columns |-> r[c]]

Positions == 1..Len(df.rows)

\* The k-th smallest member of a set of positions.
Kth(I, k) == CHOOSE i \in I : Cardinality({ j \in I : j <= i }) = k

\* s holds exactly the rows of the main table at the positions I, in table order.
IsSelection(s, I) ==
    /\ Len(s) = Cardinality(I)
    /\ \A k \in 1..Len(s) : Loaded(s[k]) = Loaded(df.rows[Kth(I, k)])

Kept ==
    { i \in Positions : /\ df.rows[i]["Sentiment"] \in selected_sentiment
                        /\ df.rows[i]["Area Type"] \in selected_area }

\* C1: the filtered view is exactly the rows of the table, in table order,
\* whose sentiment is in the selected sentiments and whose area type is in
\* the selected area types; it is never larger than the table, and it is
\* empty when either selection is empty.
C1_FilteredView ==
    Ran("sidebar") =>
        /\ IsSelection(filtered_df, Kept)
        /\ Len(filtered_df) <= Len(df.rows)
        /\ (selected_sentiment = {} \/ selected_area = {}) => filtered_df = <<>>

\* C1 witness: a selection that keeps two rows that are not neighbours in the
\* table and drops the row between them.
C1_Witness ==
    /\ Ran("sidebar")
    /\ Len(filtered_df) >= 2
    /\ \E i, j, k \in Positions :
          i < j /\ j < k /\ i \in Kept /\ j \notin Kept /\ k \in Kept

RECURSIVE Total(_, _)
Total(t, measure) ==
    IF t = <<>> THEN 0 ELSE Head(t)[measure] + Total(Tail(t), measure)

UniqueKeys(t, key) ==
    \A a, b \in 1..Len(t) : t[a][key] = t[b][key] => a = b

Present(col) == { i \in Positions : df.rows[i][col] # NaN }

\* C2 as stated: the counts of the area-type table and of the sentiment table
\* each sum to the number of rows of the table, rows with a missing value in
\* the column included.
C2_CountsSumToAllRows ==
    /\ Ran("area_counts") =>
          /\ UniqueKeys(area_counts, "Area Type")
          /\ Total(area_counts, "Review Count") = Len(df.rows)
    /\ Ran("sentiment_counts") =>
          /\ UniqueKeys(sentiment_counts, "Sentiment")
          /\ Total(sentiment_counts, "Count") = Len(df.rows)

\* C2 amended: each count table has unique keys, one row per distinct value
\* of its column that is not missing, holding the number of rows with that
\* value; so the counts sum to the number of rows whose value in the column
\* is present, and an empty table gives an empty count table.
C2_CountsSumToPresentRows ==
    /\ Ran("area_counts") =>
          /\ UniqueKeys(area_counts, "Area Type")
          /\ Total(area_counts, "Review Count") = Cardinality(Present("Area Type"))
          /\ \A a \in 1..Len(area_counts) :
                /\ area_counts[a]["Area Type"] # NaN
                /\ area_counts[a]["Review Count"] =
                     Cardinality({ i \in Positions :
                        df.rows[i]["Area Type"] = area_counts[a]["Area Type"] })
          /\ df.rows = <<>> => area_counts = <<>>
    /\ Ran("sentiment_counts") =>
          /\ UniqueKeys(sentiment_counts, "Sentiment")
          /\ Total(sentiment_counts, "Count") = Cardinality(Present("Sentiment"))
          /\ \A a \in 1..Len(sentiment_counts) :
                /\ sentiment_counts[a]["Sentiment"] # NaN
                /\ sentiment_counts[a]["Count"] =
                     Cardinality({ i \in Positions :
                        df.rows[i]["Sentiment"] = sentiment_counts[a]["Sentiment"] })
          /\ df.rows = <<>> => sentiment_counts = <<>>

\* C2 witness: both count tables are built from a table that has a row with a
\* missing area type and a row with a missing sentiment, and each has two
\* groups or more.
C2_Witness ==
    /\ Ran("sentiment_counts")
    /\ Len(area_counts) >= 2
    /\ Len(sentiment_counts) >= 2
    /\ Cardinality(Present("Area Type")) < Len(df.rows)
    /\ Cardinality(Present("Sentiment")) < Len(df.rows)

Mapped == {"Negative", "Neutral", "Positive"}

InDistrict(d) == { i \in Positions : df.rows[i]["District"] = d }

Scored(d) == { i \in InDistrict(d) : df.rows[i]["Sentiment"] \in Mapped }

With(d, sentiment) == { i \in InDistrict(d) : df.rows[i]["Sentiment"] = sentiment }

\* The sum of the scores of the rows of district d that have one.
ScoreSum(d) == Cardinality(With(d, "Neutral")) + 2 * Cardinality(With(d, "Positive"))

\* The row of the district table reports the mean of the scores of the rows
\* of its district that have a mapped sentiment.
ReportsMean(r) ==
    /\ r["SentimentScore"] # NaNf
    /\ r["SentimentScore"][1].n = Cardinality(Scored(r["District"]))
    /\ r["SentimentScore"][1].sum = ScoreSum(r["District"])
    /\ 0 <= r["SentimentScore"][1].sum
    /\ r["SentimentScore"][1].sum <= 2 * r["SentimentScore"][1].n

ReportsCount(r) == r["Review Count"] = Cardinality(InDistrict(r["District"]))

DistrictRows == { top_sentiment_districts[k] : k \in 1..Len(top_sentiment_districts) }

Districts == { df.rows[i]["District"] : i \in Positions } \ {NaN}

RuralPositive(d) ==
    { i \in Positions : /\ df.rows[i]["Area Type"] = "Rural"
                        /\ df.rows[i]["Sentiment"] = "Positive"
                        /\ df.rows[i]["Destination"] = d }

RuralPositiveDestinations ==
    { d \in { df.rows[i]["Destination"] : i \in Positions } \ {NaN} :
        RuralPositive(d) # {} }

Min(a, b) == IF a < b THEN a ELSE b

Listed == { top_rural_counts[k]["Destination"] : k \in 1..Len(top_rural_counts) }

\* C5: the top rural-positive table lists destinations, each once and with
\* the number of rows that are Rural, Positive and of that destination; it
\* lists no destination without such a row, is in descending order of
\* count, and holds the min(10, number of such destinations) destinations
\* with the highest counts.
C5_TopRuralPositive ==
    Ran("top_rural") =>
        /\ \A k \in 1..Len(top_rural_counts) :
              /\ top_rural_counts[k]["Destination"] \in RuralPositiveDestinations
              /\ top_rural_counts[k]["Positive Review Count"] =
                   Cardinality(RuralPositive(top_rural_counts[k]["Destination"]))
        /\ UniqueKeys(top_rural_counts, "Destination")
        /\ \A k \in 1..(Len(top_rural_counts) - 1) :
              top_rural_counts[k]["Positive Review Count"]
                >= top_rural_counts[k + 1]["Positive Review Count"]
        /\ Len(top_rural_counts) = Min(TopN, Cardinality(RuralPositiveDestinations))
        /\ \A d \in RuralPositiveDestinations \ Listed :
              \A k \in 1..Len(top_rural_counts) :
                 Cardinality(RuralPositive(d))
                   <= top_rural_counts[k]["Positive Review Count"]

\* C5 witness: there are more than ten rural-positive destinations with
\* different counts, so the cut drops one, and the table also has rows that
\* are not positive.
C5_Witness ==
    /\ Ran("top_rural")
    /\ Cardinality(RuralPositiveDestinations) > TopN
    /\ top_rural_counts[1]["Positive Review Count"] >= 2
    /\ top_rural_counts[TopN]["Positive Review Count"] = 1
    /\ \E i \in Positions : df.rows[i]["Sentiment"] # "Positive"

DefinedBefore(a, b) ==
    /\ a["SentimentScore"] # NaNf
    /\ b["SentimentScore"] # NaNf
    /\ a["SentimentScore"][1].sum * b["SentimentScore"][1].n
         >= b["SentimentScore"][1].sum * a["SentimentScore"][1].n

CountsDescend ==
    \A k \in 1..(Len(top_rural_counts) - 1) :
       top_rural_counts[k]["Positive Review Count"]
         >= top_rural_counts[k + 1]["Positive Review Count"]

\* Both ranked tables are what the session's first run computed.
SameAsFirstRun ==
    first # <<>> =>
        /\ Ran("top_rural") => top_rural_counts = first[1].top_rural_counts
        /\ Ran("districts") => top_sentiment_districts = first[1].top_sentiment_districts

Geocoded ==
    { i \in Kept : df.rows[i]["Latitude"] # NaNf /\ df.rows[i]["Longitude"] # NaNf }

\* The map section has selected exactly the filtered rows that have both
\* coordinates, and has drawn the map or shown the warning accordingly.
MapSectionDone ==
    /\ IsSelection(map_df, Geocoded)
    /\ outcome = (IF Geocoded = {} THEN "warning" ELSE "map")

\* C7: the geo-record selection holds exactly the filtered rows with both
\* latitude and longitude; with no such row the run shows the warning and
\* does not raise; every run ends with exactly one of the two outcomes, the
\* map or the warning.
C7_EveryRunShowsMapOrWarning ==
    /\ Ran("map") => MapSectionDone
    /\ Ended => Ran("map")

\* The reviews of the rows at the positions I, and where the j-th of them
\* starts in their corpus.
ReviewOf(I, j) == df.rows[Kth(I, j)]["Review"]

Offset(I, j) ==
    Total([m \in 1..(j - 1) |-> [len |-> Len(ReviewOf(I, m))]], "len") + (j - 1)

\* text is the reviews at the positions I, in table order, with one space
\* between two of them.
IsCorpus(text, I) ==
    /\ Len(text) = IF I = {} THEN 0 ELSE Offset(I, Cardinality(I) + 1) - 1
    /\ \A j \in 1..Cardinality(I) :
          /\ SubSeq(text, Offset(I, j) + 1, Offset(I, j) + Len(ReviewOf(I, j)))
               = ReviewOf(I, j)
          /\ j > 1 => text[Offset(I, j)] = " "

CorporaBuilt ==
    \A k \in 1..Len(clouds) :
       IsCorpus(clouds[k], { i \in Positions : df.rows[i]["Sentiment"] = Tabs[k] })

\* C8: for Positive, Neutral and Negative the corpus is the review texts of
\* the rows with that sentiment, in table order, joined by one separator;
\* an empty corpus does not make the word-cloud step raise, so the run goes
\* on to the later tabs and the map section.
C8_EmptyCorpusDoesNotRaise ==
    /\ CorporaBuilt
    /\ ~(status = "error" /\ pc = "wordcloud")

\* C9 as stated: once the table is loaded no later step of the run changes
\* its rows, columns or cell values.
C9_TableNeverChanges ==
    [][(pc # "load" /\ pc' # "load") => df' = df]_vars

\* C9 amended: once the table is loaded no later step of the run changes the
\* rows or the cell values of the loaded columns; the one change is made by
\* the grouped-average step, which adds the column SentimentScore to the
\* main table in place; every other step leaves the table as it is.
C9_OnlyScoreColumnAdded ==
    [][(pc # "load" /\ pc' # "load") =>
         /\ [i \in 1..Len(df'.rows) |-> Loaded(df'.rows[i])]
              = [i \in 1..Len(df.rows) |-> Loaded(df.rows[i])]
         /\ df' # df =>
               /\ pc = "districts"
               /\ df'.columns = df.columns \cup {"SentimentScore"}]_vars

\* C9 witness: the grouped-average step has run on a table with rows, and the
\* main table holds a column it did not have when it was loaded.
C9_Witness ==
    /\ Ran("districts")
    /\ Len(df.rows) >= 2
    /\ df.columns # Columns

\* C10: the selection reaches the map only: whatever is selected, the three
\* summary numbers, both count tables, the top rural-positive table, the
\* district table and the corpora are those of the session's first run
\* (which ran with everything selected); the geo-record selection and the
\* map-or-warning outcome may differ.
C10_SelectionReachesOnlyTheMap ==
    first # <<>> =>
        /\ Ran("summary") => metrics = first[1].metrics
        /\ Ran("area_counts") => area_counts = first[1].area_counts
        /\ Ran("sentiment_counts") => sentiment_counts = first[1].sentiment_counts
        /\ Ran("top_rural") => top_rural_counts = first[1].top_rural_counts
        /\ Ran("districts") =>
              top_sentiment_districts = first[1].top_sentiment_districts
        /\ \A k \in 1..Len(clouds) : clouds[k] = first[1].clouds[k]
        /\ Ended => Len(clouds) = Len(first[1].clouds)

\* C10 witness: a run with another selection than the first run's has ended
\* with the warning where the first run drew the map, its summary numbers,
\* tables and corpora being built from a table of several rows.
C10_Witness ==
    /\ first # <<>>
    /\ Ended
    /\ first[1].outcome = "map"
    /\ outcome = "warning"
    /\ selected_sentiment # {}
    /\ selected_area # {}
    /\ map_df # first[1].map_df
    /\ Len(sentiment_counts) >= 3

====
